---- MODULE Spec2Model ----
(***************************************************************************)
(* Model of the command-line library inventory tool in src/main.py: the    *)
(* `books` table of library.db, the repository functions that each run one *)
(* SQL statement against it, and the menu loop of run_cli_app.             *)
(*                                                                         *)
(* Text is a sequence of characters, each character a one-element string;  *)
(* "^2" stands for the single character SUPERSCRIPT TWO (U+00B2).          *)
(***************************************************************************)
EXTENDS Integers, Sequences, FiniteSets, TLC

\* ---------------------------------------------------------------------
\* Bounds of the exploration
\* ---------------------------------------------------------------------
\* largest AUTOINCREMENT value handed out: a successful add is explored
\* only while sqlite_sequence is below it
MaxSeq == 2
\* largest quantity a return is explored up to
MaxQty == 1

\* ---------------------------------------------------------------------
\* Console input the user may type
\* ---------------------------------------------------------------------
Unread == <<"<unread>">>

Titles == {<<"a", "b">>, <<"A">>}
Authors == {<<"b">>, <<"c">>}
Publishers == {<<"p">>}
Isbns == {<<"1">>, <<"1", "2">>}
YearInputs == {<<"1">>, <<"2">>, <<>>, <<"^2">>}
QtyInputs == {<<"0">>, <<"1">>, <<"-", "1">>, <<"x">>}
Keywords == {<<>>, <<"a">>, <<"A">>, <<"b">>, <<"B">>, <<"c">>, <<"z">>, <<"1">>, <<"2">>,
             <<"2", "1">>, <<"_">>, <<"%">>, <<"_", "b">>, <<"a", "%">>, <<"_", "_">>}
MenuInputs == {<<"0">>, <<"1">>, <<"2">>, <<"3">>, <<"4">>, <<"5">>, <<"6">>, <<"7">>,
               <<"8">>, <<>>, <<" ", "0">>, <<"0", "0">>}

VARIABLES
    books,        \* rows of table books, in rowid order
    seq,          \* sqlite_sequence entry of table books (largest id ever used)
    pc,           \* where run_cli_app stands: "menu", "pause", "done", "crashed"
    choice,       \* run_cli_app local `choice`
    isbn,         \* run_cli_app local `isbn`
    search_term,  \* run_cli_app local `search_term`
    inp,          \* the other lines read by the current flow, as typed
    ret,          \* return value of the repository call of the current flow
    result        \* run_cli_app locals `books` / `search_results`

vars == <<books, seq, pc, choice, isbn, search_term, inp, ret, result>>

\* ---------------------------------------------------------------------
\* Python str / int helpers
\* ---------------------------------------------------------------------
AsciiDigits == {"0", "1", "2", "3", "4", "5", "6", "7", "8", "9"}

DigitVal(c) ==
    CASE c = "0" -> 0 [] c = "1" -> 1 [] c = "2" -> 2 [] c = "3" -> 3
      [] c = "4" -> 4 [] c = "5" -> 5 [] c = "6" -> 6 [] c = "7" -> 7
      [] c = "8" -> 8 [] c = "9" -> 9

\* str.strip() for the blank character
RECURSIVE LStrip(_)
LStrip(s) == IF s # <<>> /\ Head(s) = " " THEN LStrip(Tail(s)) ELSE s

RECURSIVE RStrip(_)
RStrip(s) ==
    IF s # <<>> /\ s[Len(s)] = " " THEN RStrip(SubSeq(s, 1, Len(s) - 1)) ELSE s

Strip(s) == RStrip(LStrip(s))

\* str.isdigit(): non-empty and every character has the Unicode property
\* Digit; SUPERSCRIPT TWO has it although it is not a decimal digit
IsDigit(s) ==
    /\ s # <<>>
    /\ \A k \in 1..Len(s) : s[k] \in AsciiDigits \cup {"^2"}

RECURSIVE DecValue(_)
DecValue(s) ==
    IF s = <<>> THEN 0
    ELSE 10 * DecValue(SubSeq(s, 1, Len(s) - 1)) + DigitVal(s[Len(s)])

IntBody(s) == IF s # <<>> /\ Head(s) \in {"-", "+"} THEN Tail(s) ELSE s

\* int(s) succeeds: optional sign, then one or more decimal digits
IsInt(s) ==
    /\ IntBody(s) # <<>>
    /\ \A k \in 1..Len(IntBody(s)) : IntBody(s)[k] \in AsciiDigits

\* int(s), for s with IsInt(s); otherwise int() raises ValueError
PyInt(s) ==
    IF Head(s) = "-" THEN 0 - DecValue(IntBody(s)) ELSE DecValue(IntBody(s))

\* ---------------------------------------------------------------------
\* SQLite LIKE
\* ---------------------------------------------------------------------
\* LIKE folds the case of ASCII letters only
Fold(c) ==
    CASE c = "A" -> "a" [] c = "B" -> "b" [] c = "C" -> "c" [] c = "P" -> "p"
      [] c = "Q" -> "q" [] c = "Z" -> "z" [] OTHER -> c

\* text LIKE pattern: `%` matches any run of characters, `_` any one
\* character, every other character matches itself up to ASCII case
RECURSIVE Like(_, _)
Like(pat, text) ==
    IF pat = <<>> THEN text = <<>>
    ELSE IF Head(pat) = "%"
         THEN \E k \in 0..Len(text) : Like(Tail(pat), SubSeq(text, k + 1, Len(text)))
    ELSE IF text = <<>> THEN FALSE
    ELSE /\ (Head(pat) = "_" \/ Fold(Head(pat)) = Fold(Head(text)))
         /\ Like(Tail(pat), Tail(text))

\* ---------------------------------------------------------------------
\* The table and the repository functions.  A repository function is an
\* operator from the table (and its arguments) to the table it leaves and
\* the value it returns.
\* ---------------------------------------------------------------------
HasIsbn(bk, i) == \E k \in DOMAIN bk : bk[k].isbn = i

\* CREATE TABLE IF NOT EXISTS books: an empty table, nothing handed out yet
create_database == [books |-> <<>>, seq |-> 0]

\* add_book as it would be with no UNIQUE constraint on isbn
add_book_nounique(bk, sq, title, author, publisher, i, pub_year, quantity) ==
    [books |-> Append(bk, [id |-> sq + 1, title |-> title, author |-> author,
                           publisher |-> publisher, isbn |-> i,
                           pub_year |-> pub_year, quantity |-> quantity]),
     seq |-> sq + 1, ret |-> TRUE]

\* add_book as it would be with quantity left out of the INSERT (DEFAULT 0)
add_book_defaultqty(bk, sq, title, author, publisher, i, pub_year, quantity) ==
    IF HasIsbn(bk, i)
    THEN [books |-> bk, seq |-> sq, ret |-> FALSE]
    ELSE [books |-> Append(bk, [id |-> sq + 1, title |-> title, author |-> author,
                                publisher |-> publisher, isbn |-> i,
                                pub_year |-> pub_year, quantity |-> 0]),
          seq |-> sq + 1, ret |-> TRUE]

\* INSERT; UNIQUE(isbn) raises IntegrityError, id is AUTOINCREMENT
add_book(bk, sq, title, author, publisher, i, pub_year, quantity) ==
    IF HasIsbn(bk, i)
    THEN [books |-> bk, seq |-> sq, ret |-> FALSE]
    ELSE [books |-> Append(bk, [id |-> sq + 1, title |-> title, author |-> author,
                                publisher |-> publisher, isbn |-> i,
                                pub_year |-> pub_year, quantity |-> quantity]),
          seq |-> sq + 1, ret |-> TRUE]

\* SELECT ... FROM books
get_all_books(bk) == bk

SearchPattern(term) == <<"%">> \o term \o <<"%">>

\* search_books as it would be with the isbn column left out of the WHERE
search_books_noisbn(bk, term) ==
    SelectSeq(bk, LAMBDA r : \/ Like(SearchPattern(term), r.title)
                             \/ Like(SearchPattern(term), r.author))

\* SELECT ... WHERE title LIKE ? OR author LIKE ? OR isbn LIKE ?
search_books(bk, term) ==
    SelectSeq(bk, LAMBDA r : \/ Like(SearchPattern(term), r.title)
                             \/ Like(SearchPattern(term), r.author)
                             \/ Like(SearchPattern(term), r.isbn))

\* update_book_info as it would be with the WHERE matched by LIKE
update_book_info_like(bk, i, new_title, new_author, new_publisher, new_pub_year) ==
    [books |-> [k \in DOMAIN bk |->
                    IF Like(SearchPattern(i), bk[k].isbn)
                    THEN [bk[k] EXCEPT !.title = new_title, !.author = new_author,
                                       !.publisher = new_publisher,
                                       !.pub_year = new_pub_year]
                    ELSE bk[k]],
     ret |-> \E k \in DOMAIN bk : Like(SearchPattern(i), bk[k].isbn)]

\* UPDATE books SET title, author, publisher, pub_year WHERE isbn = ?
update_book_info(bk, i, new_title, new_author, new_publisher, new_pub_year) ==
    [books |-> [k \in DOMAIN bk |->
                    IF bk[k].isbn = i
                    THEN [bk[k] EXCEPT !.title = new_title, !.author = new_author,
                                       !.publisher = new_publisher,
                                       !.pub_year = new_pub_year]
                    ELSE bk[k]],
     ret |-> HasIsbn(bk, i)]

\* borrow_book as it would be without the test of the quantity read
borrow_book_unchecked(bk, i) ==
    [books |-> [k \in DOMAIN bk |->
                    IF bk[k].isbn = i
                    THEN [bk[k] EXCEPT !.quantity = @ - 1] ELSE bk[k]],
     ret |-> HasIsbn(bk, i)]

\* SELECT quantity; UPDATE quantity = quantity - 1 when it is > 0
borrow_book(bk, i) ==
    IF \E k \in DOMAIN bk : bk[k].isbn = i /\ bk[k].quantity > 0
    THEN [books |-> [k \in DOMAIN bk |->
                        IF bk[k].isbn = i
                        THEN [bk[k] EXCEPT !.quantity = @ - 1] ELSE bk[k]],
          ret |-> TRUE]
    ELSE [books |-> bk, ret |-> FALSE]

\* return_book as it would be with borrow_book's test of the quantity
return_book_checked(bk, i) ==
    IF \E k \in DOMAIN bk : bk[k].isbn = i /\ bk[k].quantity > 0
    THEN [books |-> [k \in DOMAIN bk |->
                        IF bk[k].isbn = i
                        THEN [bk[k] EXCEPT !.quantity = @ + 1] ELSE bk[k]],
          ret |-> TRUE]
    ELSE [books |-> bk, ret |-> FALSE]

\* UPDATE quantity = quantity + 1 WHERE isbn = ?
return_book(bk, i) ==
    [books |-> [k \in DOMAIN bk |->
                    IF bk[k].isbn = i
                    THEN [bk[k] EXCEPT !.quantity = @ + 1] ELSE bk[k]],
     ret |-> HasIsbn(bk, i)]

\* delete_book as it would be with the WHERE matched by LIKE
delete_book_like(bk, i) ==
    [books |-> SelectSeq(bk, LAMBDA r : ~Like(SearchPattern(i), r.isbn)),
     ret |-> \E k \in DOMAIN bk : Like(SearchPattern(i), bk[k].isbn)]

\* DELETE FROM books WHERE isbn = ?
delete_book(bk, i) ==
    [books |-> SelectSeq(bk, LAMBDA r : r.isbn # i),
     ret |-> HasIsbn(bk, i)]

\* ---------------------------------------------------------------------
\* run_cli_app
\* ---------------------------------------------------------------------
PyBool(b) == IF b THEN "True" ELSE "False"

NoInp == [title |-> Unread, author |-> Unread, publisher |-> Unread,
          year |-> Unread, qty |-> Unread]

Init ==
    /\ books = create_database.books
    /\ seq = create_database.seq
    /\ pc = "menu"
    /\ choice = Unread
    /\ isbn = Unread
    /\ search_term = Unread
    /\ inp = NoInp
    /\ ret = "None"
    /\ result = <<>>

\* the menu line is read and stripped
ReadChoice(c) ==
    /\ pc = "menu"
    /\ \E raw \in MenuInputs : Strip(raw) = c
    /\ choice' = c

\* choice '1': the add flow
Choice1 ==
    /\ ReadChoice(<<"1">>)
    /\ \E t \in Titles, a \in Authors, p \in Publishers, i \in Isbns, ys \in YearInputs :
         /\ isbn' = i
         /\ IF ~IsInt(ys)
            THEN \* int() raises ValueError before the quantity is asked for
                 /\ inp' = [NoInp EXCEPT !.title = t, !.author = a, !.publisher = p,
                                         !.year = ys]
                 /\ ret' = "None"
                 /\ UNCHANGED <<books, seq>>
            ELSE \E qs \in QtyInputs :
                 /\ inp' = [title |-> t, author |-> a, publisher |-> p,
                            year |-> ys, qty |-> qs]
                 /\ IF ~IsInt(qs)
                    THEN /\ ret' = "None"
                         /\ UNCHANGED <<books, seq>>
                    ELSE LET r == add_book(books, seq, t, a, p, i, PyInt(ys), PyInt(qs))
                         IN  /\ r.seq <= MaxSeq
                             /\ books' = r.books
                             /\ seq' = r.seq
                             /\ ret' = PyBool(r.ret)
    /\ pc' = "pause"
    /\ UNCHANGED <<search_term, result>>

\* choice '2': list every book
Choice2 ==
    /\ ReadChoice(<<"2">>)
    /\ result' = get_all_books(books)
    /\ pc' = "pause"
    /\ UNCHANGED <<books, seq, isbn, search_term, inp, ret>>

\* choice '3': search by keyword
Choice3 ==
    /\ ReadChoice(<<"3">>)
    /\ \E kw \in Keywords :
         /\ search_term' = kw
         /\ result' = search_books(books, kw)
    /\ pc' = "pause"
    /\ UNCHANGED <<books, seq, isbn, inp, ret>>

\* choice '4': borrow
Choice4 ==
    /\ ReadChoice(<<"4">>)
    /\ \E i \in Isbns :
         LET r == borrow_book(books, i)
         IN  /\ isbn' = i
             /\ books' = r.books
             /\ ret' = PyBool(r.ret)
    /\ pc' = "pause"
    /\ UNCHANGED <<seq, search_term, inp, result>>

\* choice '5': return
Choice5 ==
    /\ ReadChoice(<<"5">>)
    /\ \E i \in Isbns :
         LET r == return_book(books, i)
         IN  /\ \A k \in DOMAIN r.books : r.books[k].quantity <= MaxQty
             /\ isbn' = i
             /\ books' = r.books
             /\ ret' = PyBool(r.ret)
    /\ pc' = "pause"
    /\ UNCHANGED <<seq, search_term, inp, result>>

\* the year passed on by the update flow: the typed one if it is all digits,
\* else the year of the first row found
new_pub_year(new_pub_year_str, search_results) ==
    IF IsDigit(new_pub_year_str) THEN PyInt(new_pub_year_str)
    ELSE search_results[1].pub_year

\* the text passed on by the update flow: the typed one unless it is empty,
\* else the value of the first row found
to_update(typed, found) == IF typed # <<>> THEN typed ELSE found

\* choice '6': the update flow
Choice6 ==
    /\ ReadChoice(<<"6">>)
    /\ \E i \in Isbns :
         LET search_results == search_books(books, i)
         IN  /\ isbn' = i
             /\ result' = search_results
             /\ IF search_results = <<>>
                THEN /\ inp' = NoInp
                     /\ ret' = "None"
                     /\ pc' = "pause"
                     /\ UNCHANGED books
                ELSE \E new_title \in Titles \cup {<<>>},
                        new_author \in Authors \cup {<<>>},
                        new_publisher \in Publishers \cup {<<>>},
                        new_pub_year_str \in YearInputs :
                     /\ inp' = [title |-> new_title, author |-> new_author,
                                publisher |-> new_publisher,
                                year |-> new_pub_year_str, qty |-> Unread]
                     /\ IF IsDigit(new_pub_year_str) /\ ~IsInt(new_pub_year_str)
                        THEN \* int() raises ValueError and nothing catches it
                             /\ ret' = "None"
                             /\ pc' = "crashed"
                             /\ UNCHANGED books
                        ELSE LET r == update_book_info(books, i,
                                         to_update(new_title, search_results[1].title),
                                         to_update(new_author, search_results[1].author),
                                         to_update(new_publisher, search_results[1].publisher),
                                         new_pub_year(new_pub_year_str, search_results))
                             IN  /\ books' = r.books
                                 /\ ret' = PyBool(r.ret)
                                 /\ pc' = "pause"
    /\ UNCHANGED <<seq, search_term>>

\* choice '7': delete
Choice7 ==
    /\ ReadChoice(<<"7">>)
    /\ \E i \in Isbns :
         LET r == delete_book(books, i)
         IN  /\ isbn' = i
             /\ books' = r.books
             /\ ret' = PyBool(r.ret)
    /\ pc' = "pause"
    /\ UNCHANGED <<seq, search_term, inp, result>>

\* choice '0': leave the loop
Choice0 ==
    /\ ReadChoice(<<"0">>)
    /\ pc' = "done"
    /\ UNCHANGED <<books, seq, isbn, search_term, inp, ret, result>>

\* any other line: "invalid choice"
ChoiceInvalid ==
    /\ pc = "menu"
    /\ \E raw \in MenuInputs :
         /\ Strip(raw) \notin {<<"0">>, <<"1">>, <<"2">>, <<"3">>, <<"4">>, <<"5">>,
                               <<"6">>, <<"7">>}
         /\ choice' = Strip(raw)
    /\ pc' = "pause"
    /\ UNCHANGED <<books, seq, isbn, search_term, inp, ret, result>>

\* "press Enter to continue", then the next turn of the loop.  Every local is
\* assigned again before the next turn reads it, so the turn starts from the
\* values they had at the first turn.
Continue ==
    /\ pc = "pause"
    /\ pc' = "menu"
    /\ choice' = Unread
    /\ isbn' = Unread
    /\ search_term' = Unread
    /\ inp' = NoInp
    /\ ret' = "None"
    /\ result' = <<>>
    /\ UNCHANGED <<books, seq>>

Next ==
    \/ Choice1
    \/ Choice2
    \/ Choice3
    \/ Choice4
    \/ Choice5
    \/ Choice6
    \/ Choice7
    \/ Choice0
    \/ ChoiceInvalid
    \/ Continue

Spec == Init /\ [][Next]_vars

\* ---------------------------------------------------------------------
\* Vocabulary of the properties
\* ---------------------------------------------------------------------
\* a step in which the menu line read is c
Turn(c) == pc = "menu" /\ choice' = c

\* the row of bk with ISBN i
Row(bk, i) == bk[CHOOSE k \in DOMAIN bk : bk[k].isbn = i]

\* bk2 has the rows of bk at the same places, those with an ISBN other than i
\* being the same
OthersSame(bk, bk2, i) ==
    /\ Len(bk2) = Len(bk)
    /\ \A k \in DOMAIN bk : bk[k].isbn # i => bk2[k] = bk[k]

\* rows r and r2 agree on every field named in fields
Agree(r, r2, fields) == \A f \in fields : r[f] = r2[f]

\* the flow of choice '1' got as far as calling add_book
AddCalled == IsInt(inp.year) /\ inp.qty # Unread /\ IsInt(inp.qty)

\* ---------------------------------------------------------------------
\* C1
\* ---------------------------------------------------------------------
\* C1: in every state the shell can reach from an empty store, every book's
\* quantity is a non-negative integer.
C1_QuantityNonNegative ==
    \A k \in DOMAIN books : books[k].quantity \in Nat

\* ---------------------------------------------------------------------
\* C2
\* ---------------------------------------------------------------------
\* C2: borrow(isbn) on a book with quantity q > 0 returns true and leaves the
\* quantity at q - 1, every other field and every other row unchanged; on a
\* book with quantity 0, and on an ISBN with no row, it returns false and
\* leaves the store unchanged.
C2_Borrow ==
    [][Turn(<<"4">>) =>
        /\ seq' = seq
        /\ IF HasIsbn(books, isbn') /\ Row(books, isbn').quantity > 0
           THEN /\ ret' = "True"
                /\ OthersSame(books, books', isbn')
                /\ Row(books', isbn').quantity = Row(books, isbn').quantity - 1
                /\ Agree(Row(books', isbn'), Row(books, isbn'),
                         {"id", "title", "author", "publisher", "isbn", "pub_year"})
           ELSE (~HasIsbn(books, isbn') \/ Row(books, isbn').quantity = 0)
                    => (ret' = "False" /\ books' = books)]_vars

\* the last copy has just been borrowed, next to another book
C2_Witness ==
    /\ pc = "pause" /\ choice = <<"4">> /\ ret = "True"
    /\ Len(books) = 2
    /\ Row(books, isbn).quantity = 0

\* ---------------------------------------------------------------------
\* C3
\* ---------------------------------------------------------------------
UniqueIsbn ==
    \A j, k \in DOMAIN books : books[j].isbn = books[k].isbn => j = k

\* C3: add with an ISBN already in the store returns false and leaves every
\* row unchanged, and no state holds two rows with the same ISBN.
C3_DuplicateAdd ==
    /\ []UniqueIsbn
    /\ [][(Turn(<<"1">>) /\ AddCalled' /\ HasIsbn(books, isbn'))
            => (ret' = "False" /\ books' = books /\ seq' = seq)]_vars

\* an add of other data under an ISBN in use has just been turned down
C3_Witness ==
    /\ pc = "pause" /\ choice = <<"1">> /\ ret = "False"
    /\ HasIsbn(books, isbn)
    /\ Row(books, isbn).title # inp.title
    /\ Row(books, isbn).quantity # PyInt(inp.qty)

\* ---------------------------------------------------------------------
\* C4
\* ---------------------------------------------------------------------
\* the flow of choice '6' got as far as calling update_book_info
UpdateCalled == ret # "None"

\* C4: update_fields(isbn, t, a, p, y) on an existing ISBN returns true and
\* sets that row's title, author, publisher and pub_year to t, a, p, y,
\* leaving its id, isbn and quantity and every other row unchanged; on an
\* ISBN with no row it returns false and changes nothing.
C4_UpdateFields ==
    [][(Turn(<<"6">>) /\ UpdateCalled') =>
        LET t == to_update(inp'.title, result'[1].title)
            a == to_update(inp'.author, result'[1].author)
            p == to_update(inp'.publisher, result'[1].publisher)
            y == new_pub_year(inp'.year, result')
        IN  /\ seq' = seq
            /\ IF HasIsbn(books, isbn')
               THEN /\ ret' = "True"
                    /\ OthersSame(books, books', isbn')
                    /\ Row(books', isbn').title = t
                    /\ Row(books', isbn').author = a
                    /\ Row(books', isbn').publisher = p
                    /\ Row(books', isbn').pub_year = y
                    /\ Agree(Row(books', isbn'), Row(books, isbn'),
                             {"id", "isbn", "quantity"})
               ELSE ret' = "False" /\ books' = books]_vars

\* a book has just been given a typed title, author and year, next to
\* another book
C4_Witness ==
    /\ pc = "pause" /\ choice = <<"6">> /\ ret = "True"
    /\ Len(books) = 2
    /\ inp.title # <<>> /\ inp.author # <<>> /\ IsInt(inp.year)
    /\ Row(books, isbn).title = inp.title
    /\ Row(books, isbn).title # Row(result, isbn).title
    /\ Row(books, isbn).pub_year # Row(result, isbn).pub_year

\* an update has just been turned down for an ISBN that has no row
C4_WitnessMissing ==
    /\ pc = "pause" /\ choice = <<"6">> /\ ret = "False"
    /\ ~HasIsbn(books, isbn)

\* ---------------------------------------------------------------------
\* C5
\* ---------------------------------------------------------------------
\* C5: in the update flow for an ISBN that has a row, every field left empty
\* keeps the value the book with exactly that ISBN had before the flow.
C5_BlankKeeps ==
    [][(Turn(<<"6">>) /\ HasIsbn(books, isbn') /\ inp' # NoInp) =>
        /\ HasIsbn(books', isbn')
        /\ inp'.title = <<>> => Row(books', isbn').title = Row(books, isbn').title
        /\ inp'.author = <<>> => Row(books', isbn').author = Row(books, isbn').author
        /\ inp'.publisher = <<>>
              => Row(books', isbn').publisher = Row(books, isbn').publisher
        /\ inp'.year = <<>> => Row(books', isbn').pub_year = Row(books, isbn').pub_year]_vars

\* ---------------------------------------------------------------------
\* C6
\* ---------------------------------------------------------------------
\* text contains kw as a substring, character for character
Contains(text, kw) ==
    \E j \in 0..(Len(text) - Len(kw)) : SubSeq(text, j + 1, j + Len(kw)) = kw

\* C6 as stated: search(keyword) returns exactly the rows whose title, author
\* or isbn contains keyword as a case-sensitive substring, and leaves the
\* store unchanged.
C6_SearchCaseSensitive ==
    [][Turn(<<"3">>) =>
        LET kw == search_term'
        IN  /\ books' = books /\ seq' = seq
            /\ result' = SelectSeq(books, LAMBDA r : \/ Contains(r.title, kw)
                                                     \/ Contains(r.author, kw)
                                                     \/ Contains(r.isbn, kw))]_vars

\* c and d are the same character, or the two cases of one ASCII letter
SameLetter(c, d) ==
    \/ c = d
    \/ {c, d} \in {{"a", "A"}, {"b", "B"}, {"c", "C"}, {"p", "P"}, {"q", "Q"},
                   {"z", "Z"}}

RECURSIVE SumTo(_, _)
SumTo(w, n) == IF n = 0 THEN 0 ELSE w[n] + SumTo(w, n - 1)

\* the run of characters u matches kw: u splits into one piece per character
\* of kw, a piece of any length for `%`, one character for `_`, and for any
\* other character that character in either case
Matches(kw, u) ==
    \E w \in [1..Len(kw) -> 0..Len(u)] :
        /\ SumTo(w, Len(kw)) = Len(u)
        /\ \A j \in 1..Len(kw) :
              kw[j] # "%" =>
                  /\ w[j] = 1
                  /\ (kw[j] = "_" \/ SameLetter(kw[j], u[SumTo(w, j)]))

\* text contains a run of characters that matches kw
HasRun(text, kw) ==
    \E a \in 1..(Len(text) + 1) :
        \E b \in (a - 1)..Len(text) : Matches(kw, SubSeq(text, a, b))

\* C6 as amended: search(keyword) returns exactly the rows, in id order, whose
\* title, author or isbn contains a run of characters matching keyword, where
\* ASCII letters match in either case, `_` in keyword matches any one
\* character and `%` any run of characters; it leaves the store unchanged.
C6_SearchLike ==
    [][Turn(<<"3">>) =>
        LET kw == search_term'
        IN  /\ books' = books /\ seq' = seq
            /\ result' = SelectSeq(books, LAMBDA r : \/ HasRun(r.title, kw)
                                                     \/ HasRun(r.author, kw)
                                                     \/ HasRun(r.isbn, kw))]_vars

\* a search has just returned, of two books, the one that holds the keyword
\* only in the other letter case
C6_Witness ==
    /\ pc = "pause" /\ choice = <<"3">>
    /\ Len(books) = 2 /\ Len(result) = 1
    /\ ~Contains(result[1].title, search_term)
    /\ ~Contains(result[1].author, search_term)
    /\ ~Contains(result[1].isbn, search_term)
    /\ \A k \in 1..Len(search_term) : search_term[k] \notin {"%", "_"}

\* ---------------------------------------------------------------------
\* C7
\* ---------------------------------------------------------------------
\* C7: after add succeeds with an ISBN not in the store before, list_all
\* returns the rows that were there, unchanged, plus exactly one new row that
\* carries the supplied values and an id no other row has.
C7_AddThenList ==
    [][(Turn(<<"1">>) /\ ret' = "True") =>
        LET rows == get_all_books(books')
            new == rows[Len(rows)]
        IN  /\ ~HasIsbn(books, isbn')
            /\ Len(rows) = Len(books) + 1
            /\ SubSeq(rows, 1, Len(books)) = books
            /\ new.title = inp'.title
            /\ new.author = inp'.author
            /\ new.publisher = inp'.publisher
            /\ new.isbn = isbn'
            /\ new.pub_year = PyInt(inp'.year)
            /\ new.quantity = PyInt(inp'.qty)
            /\ \A k \in 1..Len(books) : rows[k].id # new.id]_vars

\* a second book has just been added, with a quantity other than the default
C7_Witness ==
    /\ pc = "pause" /\ choice = <<"1">> /\ ret = "True"
    /\ Len(books) = 2
    /\ books[2].isbn = isbn
    /\ books[2].quantity # 0

\* ---------------------------------------------------------------------
\* C8
\* ---------------------------------------------------------------------
\* C8: return(isbn) on an existing book with any quantity q, 0 included,
\* returns true and leaves the quantity at q + 1, every other field and every
\* other row unchanged; on an ISBN with no row it returns false and leaves
\* the store unchanged.
C8_Return ==
    [][Turn(<<"5">>) =>
        /\ seq' = seq
        /\ IF HasIsbn(books, isbn')
           THEN /\ ret' = "True"
                /\ OthersSame(books, books', isbn')
                /\ Row(books', isbn').quantity = Row(books, isbn').quantity + 1
                /\ Agree(Row(books', isbn'), Row(books, isbn'),
                         {"id", "title", "author", "publisher", "isbn", "pub_year"})
           ELSE ret' = "False" /\ books' = books]_vars

\* a book that had no copy left has just been returned, next to another book
C8_Witness ==
    /\ pc = "pause" /\ choice = <<"5">> /\ ret = "True"
    /\ Len(books) = 2
    /\ Row(books, isbn).quantity = 1

\* ---------------------------------------------------------------------
\* C9
\* ---------------------------------------------------------------------
\* C9: delete(isbn) on an existing ISBN returns true and removes exactly that
\* row: no list or search includes it any more and every other row is
\* unchanged; on an ISBN with no row it returns false and alters no row.
C9_Delete ==
    [][Turn(<<"7">>) =>
        /\ seq' = seq
        /\ IF HasIsbn(books, isbn')
           THEN LET at == CHOOSE k \in DOMAIN books : books[k].isbn = isbn'
                IN  /\ ret' = "True"
                    /\ Len(books') = Len(books) - 1
                    /\ \A k \in DOMAIN books' :
                          books'[k] = books[IF k < at THEN k ELSE k + 1]
                    /\ ~HasIsbn(get_all_books(books'), isbn')
                    /\ \A kw \in Keywords : ~HasIsbn(search_books(books', kw), isbn')
           ELSE ret' = "False" /\ books' = books]_vars

\* the first of two books has just been deleted
C9_Witness ==
    /\ pc = "pause" /\ choice = <<"7">> /\ ret = "True"
    /\ Len(books) = 1
    /\ books[1].id = 2

\* ---------------------------------------------------------------------
\* C10
\* ---------------------------------------------------------------------
\* C10: the loop ends only on choice '0'; after every other choice the shell
\* goes back to the menu prompt, and an add flow with a year or quantity that
\* is not an integer leaves the store unchanged.
C10_OnlyZeroEnds ==
    [][pc = "menu" =>
        /\ IF choice' = <<"0">> THEN pc' = "done" ELSE pc' = "pause"
        /\ (choice' = <<"1">> /\ ~AddCalled') => (books' = books /\ seq' = seq)]_vars
====
